---- MODULE Spec2Model ----
(***************************************************************************)
(* Model of file_splitter.py: split_file, join_files_single_streaming and  *)
(* join_files_multithreaded_streaming with its Part Readers                *)
(* (read_part_worker_streaming) and its Writer                             *)
(* (write_part_worker_streaming).                                          *)
(*                                                                         *)
(* A file is a record [exists, data]; data is a sequence of bytes and      *)
(* offset k of the file is data[k+1].  Strings that the program formats    *)
(* and parses (file names, manifest values) are sequences of characters.   *)
(***************************************************************************)
EXTENDS Integers, Sequences, FiniteSets, TLC

\* ------------------------------------------------------------------ bounds
MaxFileSize == 3
MaxParts == 2
MaxChunkSize == 2
MaxBufferSize == 2
MaxWorkers == 2

\* ------------------------------------------------------- program constants
\* ThreadPoolExecutor(max_workers=None) sizes the pool at min(32, cpus + 4)
DefaultPoolSize == 32

\* ------------------------------------------------------------ basic values
Digits == <<"0", "1", "2", "3", "4", "5", "6", "7", "8", "9">>
None == <<"None">>

Min(a, b) == IF a < b THEN a ELSE b
Max(a, b) == IF a > b THEN a ELSE b

\* ------------------------------------------------------------- file system
Absent == [exists |-> FALSE, data |-> <<>>]
File(d) == [exists |-> TRUE, data |-> d]

\* os.path.join(dir, f"{name}.part{i:03d}"): one directory entry per (name, i)
PartFileName(name, i) == <<name, i>>

\* os.path.exists / os.path.getsize / whole content of a directory entry
PathExists(dir, path) == path \in DOMAIN dir
GetSize(dir, path) == Len(dir[path])

\* f.read(n) at file position pos
ReadAt(data, pos, n) == SubSeq(data, pos + 1, Min(Len(data), pos + n))

\* f.seek(pos); f.write(chunk): a write past the end extends the file and
\* a gap between the old end and pos reads as zero bytes
WriteAt(data, pos, chunk) ==
  LET newlen == Max(Len(data), pos + Len(chunk))
  IN [k \in 1..newlen |->
        IF k > pos /\ k <= pos + Len(chunk) THEN chunk[k - pos]
        ELSE IF k <= Len(data) THEN data[k]
        ELSE 0]

\* open(path, 'wb') without the truncate(n) that follows it
Truncate_Empty(n) == <<>>

\* open(path, 'wb'); f.truncate(n)
Truncate(n) == [k \in 1..n |-> 0]

\* ------------------------------------------------- formatting and parsing
RECURSIVE IntToStr(_)
\* f"{n}" for n >= 0
IntToStr(n) ==
  IF n < 10 THEN <<Digits[n + 1]>>
  ELSE IntToStr(n \div 10) \o <<Digits[(n % 10) + 1]>>

DigitValue(c) == CHOOSE d \in 0..9 : Digits[d + 1] = c

RECURSIVE StrToInt(_)
\* int(s) for a string of decimal digits
StrToInt(s) ==
  IF Len(s) = 0 THEN 0
  ELSE 10 * StrToInt(SubSeq(s, 1, Len(s) - 1)) + DigitValue(s[Len(s)])

RECURSIVE LStrip(_)
LStrip(s) == IF Len(s) > 0 /\ s[1] = " " THEN LStrip(Tail(s)) ELSE s

RECURSIVE RStrip(_)
RStrip(s) ==
  IF Len(s) > 0 /\ s[Len(s)] = " " THEN RStrip(SubSeq(s, 1, Len(s) - 1)) ELSE s

\* str.strip()
Strip(s) == LStrip(RStrip(s))

\* calculate_file_hash: the hexdigest of the content, a non-empty string
\* that differs for different contents (a byte of the model is one digit)
HexDigest(data) == <<"h">> \o [k \in 1..Len(data) |-> Digits[data[k] + 1]]

\* one "key:value\n" line of the .info file
InfoLine(k, v) == [key |-> k, value |-> v]

\* the lines split_file writes
WriteInfo(base_name, parts, file_size, chunk, file_hash) ==
  << InfoLine("original_name", base_name),
     InfoLine("parts_count", IntToStr(parts)),
     InfoLine("original_size", IntToStr(file_size)),
     InfoLine("chunk_size", IntToStr(chunk)) >>
  \o (IF file_hash # None /\ file_hash # <<>>
        THEN <<InfoLine("original_hash", file_hash)>> ELSE <<>>)

\* line.split(':', 1)[1].strip() of the last line that starts with the key
HasKey(lines, k) == \E n \in 1..Len(lines) : lines[n].key = k
LastValue(lines, k) ==
  LET n == CHOOSE m \in 1..Len(lines) :
             /\ lines[m].key = k
             /\ \A j \in (m + 1)..Len(lines) : lines[j].key # k
  IN Strip(lines[n].value)

\* the loop that reads the .info file in both join functions
ParseInfo(lines) ==
  [ original_name |-> IF HasKey(lines, "original_name")
                      THEN LastValue(lines, "original_name") ELSE None,
    parts_count   |-> IF HasKey(lines, "parts_count")
                      THEN StrToInt(LastValue(lines, "parts_count")) ELSE 0,
    original_size |-> IF HasKey(lines, "original_size")
                      THEN StrToInt(LastValue(lines, "original_size")) ELSE 0,
    chunk_size    |-> IF HasKey(lines, "chunk_size")
                      THEN StrToInt(LastValue(lines, "chunk_size")) ELSE 0,
    original_hash |-> IF HasKey(lines, "original_hash")
                      THEN LastValue(lines, "original_hash") ELSE None ]

\* "if not original_name or parts_count == 0"
InfoInvalid(m) ==
  m.original_name = None \/ m.original_name = <<>> \/ m.parts_count = 0


\* ------------------------------------------------------------------- state
VARIABLES
  file_name,      \* base name of the source file given to split_file
  src,            \* the source file
  chunk_size,     \* split_file's chunk_size argument
  buffer_size,    \* the buffer_size argument of the three operations
  max_workers,    \* join_files_multithreaded_streaming's max_workers
  verify_hash,    \* split_file's verify_hash argument
  dir_exists,     \* the "{base_name}_parts" directory exists
  parts_dir,      \* part files of that directory: PartFileName -> content
  info_file,      \* the "{base_name}.info" file: a sequence of lines
  pc_split, part_num, bytes_written, remaining, open_parts, split_result,
  pc_single, s_info, s_i, s_pos, s_read, out_single, single_result,
  pc_main, m_info, part_infos, out_multi, multi_result,
  single_verdict, \* what each join printed about the integrity of its
  multi_verdict,  \* output: "none", "match" or "mismatch"
  write_queue,    \* the queue.Queue() shared by the Readers and the Writer
  r_pc, bytes_read,          \* per part: the Reader's position and counter
  w_pc, completed_parts,     \* the Writer's position and counter
  \* history of what the workers did (never read by the program)
  sent,           \* per part: the kinds of the messages its Reader has put
  w_seen,         \* per part: the terminal message the Writer has taken
  w_count,        \* per output offset: how many times the Writer wrote it
  timed_out,      \* the Writer left its loop through queue.Empty
  join_timed_out  \* writer_thread.join(timeout=60) returned on its timeout

inputVars == <<file_name, src, chunk_size, buffer_size, max_workers,
              verify_hash>>
fsVars == <<dir_exists, parts_dir, info_file>>
splitVars == <<pc_split, part_num, bytes_written, remaining, open_parts,
               split_result>>
singleVars == <<pc_single, s_info, s_i, s_pos, s_read, out_single,
                single_result>>
mainVars == <<pc_main, m_info, part_infos, multi_result>>
readerVars == <<r_pc, bytes_read, sent>>
writerVars == <<w_pc, completed_parts, w_seen, w_count, timed_out>>
histVars == <<join_timed_out>>
reportVars == <<single_verdict, multi_verdict>>
vars == <<inputVars, fsVars, splitVars, singleVars, mainVars, readerVars,
          writerVars, histVars, reportVars, out_multi, write_queue>>

PartIds == 1..MaxParts

\* base names: a plain one, and names with white space at an end, which
\* str.strip() changes
Names == {<<"a">>, <<"a", " ">>, <<" ", "a">>, <<" ">>}
\* The program never looks at the value of a byte, only at how many it read,
\* so few contents per length are enough: offset k holds the byte value
\* k + 1, which no two offsets share and which differs from the zero fill.
Content(n) == [k \in 1..n |-> k]
\* The zero fill of a preallocated output can equal file content: the
\* contents also hold a file that ends in (here: is) a zero byte.
ZeroEnded(n) == [k \in 1..n |-> IF k = n THEN 0 ELSE k]
Contents == {Content(n) : n \in 0..MaxFileSize} \cup {ZeroEnded(1)}
\* max_workers = None is written 0 (the command line never passes 0 here)
NoLimit == 0
WorkerChoices == {NoLimit} \cup (1..MaxWorkers)

EmptyInfo == [original_name |-> None, parts_count |-> 0,
              original_size |-> 0, chunk_size |-> 0, original_hash |-> None]
EmptyDir == [p \in {} |-> <<>>]

Init ==
  /\ file_name \in Names
  /\ src \in {Absent} \cup {File(d) : d \in Contents}
  /\ chunk_size \in 1..MaxChunkSize
  /\ Len(src.data) <= chunk_size * MaxParts
  /\ buffer_size \in 1..MaxBufferSize
  /\ max_workers \in WorkerChoices
  /\ verify_hash \in BOOLEAN
  /\ dir_exists = FALSE
  /\ parts_dir = EmptyDir
  /\ info_file = Absent
  /\ pc_split = "ready" /\ part_num = 1 /\ bytes_written = 0
  /\ remaining = 0 /\ open_parts = {} /\ split_result = "none"
  /\ pc_single = "ready" /\ s_info = EmptyInfo /\ s_i = 0 /\ s_pos = 0
  /\ s_read = 0 /\ out_single = Absent /\ single_result = "none"
  /\ pc_main = "ready" /\ m_info = EmptyInfo /\ part_infos = <<>>
  /\ out_multi = Absent /\ multi_result = "none"
  /\ single_verdict = "none" /\ multi_verdict = "none"
  /\ write_queue = <<>>
  /\ r_pc = [i \in PartIds |-> "none"]
  /\ bytes_read = [i \in PartIds |-> 0]
  /\ w_pc = "none" /\ completed_parts = 0
  /\ sent = [i \in PartIds |-> <<>>]
  /\ w_seen = [i \in PartIds |-> "none"]
  /\ w_count = [o \in 0..(MaxFileSize - 1) |-> 0]
  /\ timed_out = FALSE
  /\ join_timed_out = FALSE

\* -------------------------------------------------------------- split_file
file_size == Len(src.data)

\* lines 30-35: file_hash, taken from the source before the parts are made
FileHash == IF verify_hash THEN HexDigest(src.data) ELSE None

\* split_file creating the output directory before the input checks
SplitStart_MakeDirFirst ==
  /\ pc_split = "ready"
  /\ dir_exists' = TRUE
  /\ IF ~src.exists
       THEN pc_split' = "done" /\ split_result' = "not_found"
       ELSE IF file_size = 0
         THEN pc_split' = "done" /\ split_result' = "empty"
         ELSE pc_split' = "outer" /\ UNCHANGED split_result
  /\ part_num' = 1 /\ bytes_written' = 0
  /\ UNCHANGED <<inputVars, reportVars, parts_dir, info_file, remaining, open_parts,
                 singleVars, mainVars, readerVars, writerVars, histVars,
                 out_multi, write_queue>>

\* lines 21-44: the two input checks, makedirs and the counters
SplitStart ==
  /\ pc_split = "ready"
  /\ IF ~src.exists
       THEN /\ pc_split' = "done" /\ split_result' = "not_found"
            /\ UNCHANGED dir_exists
       ELSE IF file_size = 0
         THEN /\ pc_split' = "done" /\ split_result' = "empty"
              /\ UNCHANGED dir_exists
         ELSE /\ pc_split' = "outer" /\ dir_exists' = TRUE
              /\ UNCHANGED split_result
  /\ part_num' = 1 /\ bytes_written' = 0
  /\ UNCHANGED <<inputVars, reportVars, parts_dir, info_file, remaining, open_parts,
                 singleVars, mainVars, readerVars, writerVars, histVars,
                 out_multi, write_queue>>

\* lines 47-51: the outer loop test; open(part_filename, 'wb')
SplitOpenPart ==
  /\ pc_split = "outer"
  /\ bytes_written < file_size
  /\ parts_dir' = [p \in DOMAIN parts_dir \cup {PartFileName(file_name, part_num)}
                     |-> IF p = PartFileName(file_name, part_num) THEN <<>>
                         ELSE parts_dir[p]]
  /\ open_parts' = open_parts \cup {part_num}
  /\ remaining' = chunk_size
  /\ pc_split' = "inner"
  /\ UNCHANGED <<inputVars, reportVars, dir_exists, info_file, part_num, bytes_written,
                 split_result, singleVars, mainVars, readerVars, writerVars,
                 histVars, out_multi, write_queue>>

\* line 54 without the cap that keeps a part at chunk_size bytes
ReadSize_NoRemaining(buf, rem, left) == Min(buf, left)

\* line 54
ReadSize(buf, rem, left) == Min(buf, Min(rem, left))

\* lines 52-61: one pass of the inner loop
SplitWriteChunk ==
  /\ pc_split = "inner"
  /\ remaining > 0 /\ bytes_written < file_size
  /\ LET read_size == ReadSize(buffer_size, remaining, file_size - bytes_written)
         chunk == ReadAt(src.data, bytes_written, read_size)
         name == PartFileName(file_name, part_num)
     IN IF chunk = <<>>
          THEN /\ pc_split' = "close"
               /\ UNCHANGED <<parts_dir, bytes_written, remaining>>
          ELSE /\ parts_dir' = [parts_dir EXCEPT ![name] = @ \o chunk]
               /\ bytes_written' = bytes_written + Len(chunk)
               /\ remaining' = remaining - Len(chunk)
               /\ pc_split' = "inner"
  /\ UNCHANGED <<inputVars, reportVars, dir_exists, info_file, part_num, open_parts,
                 split_result, singleVars, mainVars, readerVars, writerVars,
                 histVars, out_multi, write_queue>>

\* the next part opened while the finished one stays open
SplitClosePart_KeepOpen ==
  /\ \/ pc_split = "close"
     \/ pc_split = "inner" /\ ~(remaining > 0 /\ bytes_written < file_size)
  /\ part_num' = part_num + 1
  /\ pc_split' = "outer"
  /\ UNCHANGED <<inputVars, reportVars, fsVars, bytes_written, remaining, split_result,
                 open_parts, singleVars, mainVars, readerVars, writerVars,
                 histVars, out_multi, write_queue>>

\* lines 52, 62-65: the inner loop ends, the part file is closed
SplitClosePart ==
  /\ \/ pc_split = "close"
     \/ pc_split = "inner" /\ ~(remaining > 0 /\ bytes_written < file_size)
  /\ open_parts' = open_parts \ {part_num}
  /\ part_num' = part_num + 1
  /\ pc_split' = "outer"
  /\ UNCHANGED <<inputVars, reportVars, fsVars, bytes_written, remaining, split_result,
                 singleVars, mainVars, readerVars, writerVars, histVars,
                 out_multi, write_queue>>

\* lines 47, 67-77: the outer loop ends, the .info file is written
SplitWriteInfo ==
  /\ pc_split = "outer"
  /\ ~(bytes_written < file_size)
  /\ info_file' = File(WriteInfo(file_name, part_num - 1, file_size, chunk_size,
                                 FileHash))
  /\ pc_split' = "done" /\ split_result' = "split"
  /\ UNCHANGED <<inputVars, reportVars, dir_exists, parts_dir, part_num, bytes_written,
                 remaining, open_parts, singleVars, mainVars, readerVars,
                 writerVars, histVars, out_multi, write_queue>>

\* --------------------------------------------- join_files_single_streaming
\* f"{original_name}.part{i:03d}" under parts_directory
PartPath(m, i) == PartFileName(m.original_name, i)

\* the part offset without the multiplication by chunk_size
PartPosition_Unscaled(i, chunk) == i - 1

\* (i - 1) * chunk_size, lines 194 and 302
PartPosition(i, chunk) == (i - 1) * chunk

\* lines 231-240 and 319-326: the verdict printed for the output content
Verdict(m, data) ==
  IF m.original_hash = None \/ m.original_hash = <<>> THEN "none"
  ELSE IF HexDigest(data) = m.original_hash THEN "match"
  ELSE "mismatch"

\* lines 246-286: the directory and manifest checks both joins start with
JoinCheck(m) ==
  IF ~dir_exists THEN "no_directory"
  ELSE IF ~info_file.exists THEN "no_info"
  ELSE IF InfoInvalid(m) THEN "bad_info"
  ELSE "ok"

SingleStart ==
  /\ pc_single = "ready"
  /\ pc_split = "done"
  /\ pc_main = "ready"
  /\ LET m == IF dir_exists /\ info_file.exists
                THEN ParseInfo(info_file.data) ELSE EmptyInfo
     IN /\ s_info' = m
        /\ IF JoinCheck(m) = "ok"
             THEN pc_single' = "prealloc" /\ UNCHANGED single_result
             ELSE pc_single' = "done" /\ single_result' = JoinCheck(m)
  /\ UNCHANGED <<inputVars, reportVars, fsVars, splitVars, s_i, s_pos, s_read, out_single,
                 mainVars, readerVars, writerVars, histVars, out_multi,
                 write_queue>>

\* lines 288-294: create the output file at its full size, reopen it 'r+b'
SinglePrealloc ==
  /\ pc_single = "prealloc"
  /\ out_single' = File(Truncate(s_info.original_size))
  /\ s_i' = 1
  /\ pc_single' = "part"
  /\ UNCHANGED <<inputVars, reportVars, fsVars, splitVars, s_info, s_pos, s_read,
                 single_result, mainVars, readerVars, writerVars,
                 histVars, out_multi, write_queue>>

\* the for loop going on to the next part when a part file is missing
SingleNextPart_SkipMissing ==
  /\ pc_single = "part"
  /\ s_i <= s_info.parts_count
  /\ IF ~PathExists(parts_dir, PartPath(s_info, s_i))
       THEN /\ s_i' = s_i + 1
            /\ UNCHANGED <<pc_single, single_result, s_pos, s_read>>
       ELSE /\ s_pos' = PartPosition(s_i, s_info.chunk_size)
            /\ s_read' = 0
            /\ pc_single' = "copy"
            /\ UNCHANGED <<single_result, s_i>>
  /\ UNCHANGED <<inputVars, reportVars, fsVars, splitVars, s_info, out_single,
                 mainVars, readerVars, writerVars, histVars, out_multi,
                 write_queue>>

\* lines 295-305: next part of the for loop: existence check, seek, open
SingleNextPart ==
  /\ pc_single = "part"
  /\ s_i <= s_info.parts_count
  /\ IF ~PathExists(parts_dir, PartPath(s_info, s_i))
       THEN /\ pc_single' = "done" /\ single_result' = "missing_part"
            /\ UNCHANGED <<s_pos, s_read>>
       ELSE /\ s_pos' = PartPosition(s_i, s_info.chunk_size)
            /\ s_read' = 0
            /\ pc_single' = "copy"
            /\ UNCHANGED single_result
  /\ UNCHANGED <<inputVars, reportVars, fsVars, splitVars, s_info, s_i, out_single,
                 mainVars, readerVars, writerVars, histVars, out_multi,
                 write_queue>>

\* lines 307-314: one pass of the copy loop
SingleCopy ==
  /\ pc_single = "copy"
  /\ LET chunk == ReadAt(parts_dir[PartPath(s_info, s_i)], s_read, buffer_size)
     IN IF chunk = <<>>
          THEN /\ s_i' = s_i + 1
               /\ pc_single' = "part"
               /\ UNCHANGED <<s_pos, s_read, out_single>>
          ELSE /\ out_single' = File(WriteAt(out_single.data, s_pos, chunk))
               /\ s_pos' = s_pos + Len(chunk)
               /\ s_read' = s_read + Len(chunk)
               /\ UNCHANGED <<s_i, pc_single>>
  /\ UNCHANGED <<inputVars, reportVars, fsVars, splitVars, s_info, single_result,
                 mainVars, readerVars, writerVars, histVars, out_multi,
                 write_queue>>

\* lines 295, 316-326: the for loop ends, the file is reported assembled
\* and its hash is compared with the manifest's
SingleReport ==
  /\ pc_single = "part"
  /\ s_i > s_info.parts_count
  /\ pc_single' = "done" /\ single_result' = "assembled"
  /\ single_verdict' = Verdict(s_info, out_single.data)
  /\ UNCHANGED <<inputVars, multi_verdict, fsVars, splitVars, s_info, s_i, s_pos, s_read,
                 out_single, mainVars, readerVars, writerVars, histVars,
                 out_multi, write_queue>>

\* -------------------------------------- join_files_multithreaded_streaming
\* lines 136-174
MultiStart ==
  /\ pc_main = "ready"
  /\ pc_split = "done"
  /\ pc_single = "done"
  /\ LET m == IF dir_exists /\ info_file.exists
                THEN ParseInfo(info_file.data) ELSE EmptyInfo
     IN /\ m_info' = m
        /\ IF JoinCheck(m) = "ok"
             THEN pc_main' = "prealloc" /\ UNCHANGED multi_result
             ELSE pc_main' = "done" /\ multi_result' = JoinCheck(m)
  /\ UNCHANGED <<inputVars, reportVars, fsVars, splitVars, singleVars, part_infos,
                 readerVars, writerVars, histVars, out_multi, write_queue>>

\* lines 176-183: create the output file at its full size, make the queue
MultiPrealloc ==
  /\ pc_main = "prealloc"
  /\ out_multi' = File(Truncate(m_info.original_size))
  /\ write_queue' = <<>>
  /\ pc_main' = "prepare"
  /\ UNCHANGED <<inputVars, reportVars, fsVars, splitVars, singleVars, m_info, part_infos,
                 multi_result, readerVars, writerVars, histVars>>

\* the tuple appended at line 195
PartInfo(m, i) ==
  [part_num |-> i,
   part_filename |-> PartPath(m, i),
   position |-> PartPosition(i, m.chunk_size),
   part_size |-> GetSize(parts_dir, PartPath(m, i))]

\* lines 185-195: part_infos, or return at the first part that is missing
MultiPrepare ==
  /\ pc_main = "prepare"
  /\ IF \E i \in 1..m_info.parts_count : ~PathExists(parts_dir, PartPath(m_info, i))
       THEN /\ pc_main' = "done" /\ multi_result' = "missing_part"
            /\ UNCHANGED part_infos
       ELSE /\ part_infos' = [i \in 1..m_info.parts_count |-> PartInfo(m_info, i)]
            /\ pc_main' = "start_writer"
            /\ UNCHANGED multi_result
  /\ UNCHANGED <<inputVars, reportVars, fsVars, splitVars, singleVars, m_info, readerVars,
                 writerVars, histVars, out_multi, write_queue>>

\* lines 197-203: writer_thread.start()
MultiStartWriter ==
  /\ pc_main = "start_writer"
  /\ w_pc' = "loop"
  /\ completed_parts' = 0
  /\ pc_main' = "submit"
  /\ UNCHANGED <<inputVars, reportVars, fsVars, splitVars, singleVars, m_info, part_infos,
                 multi_result, readerVars, w_seen, w_count, timed_out,
                 histVars, out_multi, write_queue>>

\* lines 206-211: one read task per part is handed to the pool
MultiSubmit ==
  /\ pc_main = "submit"
  /\ r_pc' = [i \in PartIds |-> IF i <= Len(part_infos) THEN "queued" ELSE r_pc[i]]
  /\ pc_main' = "wait_readers"
  /\ UNCHANGED <<inputVars, reportVars, fsVars, splitVars, singleVars, m_info, part_infos,
                 multi_result, bytes_read, sent, writerVars, histVars,
                 out_multi, write_queue>>

\* lines 213-223: as_completed and the exit of the with block
MultiReadersDone ==
  /\ pc_main = "wait_readers"
  /\ \A i \in 1..Len(part_infos) : r_pc[i] = "done"
  /\ pc_main' = "join_writer"
  /\ UNCHANGED <<inputVars, reportVars, fsVars, splitVars, singleVars, m_info, part_infos,
                 multi_result, readerVars, writerVars, histVars, out_multi,
                 write_queue>>

\* line 226: the writer thread has ended
MultiJoinWriter ==
  /\ pc_main = "join_writer"
  /\ w_pc = "exit"
  /\ pc_main' = "report"
  /\ UNCHANGED <<inputVars, reportVars, fsVars, splitVars, singleVars, m_info, part_infos,
                 multi_result, readerVars, writerVars, histVars, out_multi,
                 write_queue>>

\* line 226: join(timeout=60) gives up; the Writer is still working through
\* the messages left in the queue (their number is not bounded, the wait is)
MultiJoinTimeout ==
  /\ pc_main = "join_writer"
  /\ w_pc = "loop" /\ write_queue # <<>>
  /\ join_timed_out' = TRUE
  /\ pc_main' = "report"
  /\ UNCHANGED <<inputVars, reportVars, fsVars, splitVars, singleVars, m_info, part_infos,
                 multi_result, readerVars, writerVars, out_multi,
                 write_queue>>

\* lines 228-240: the file is reported assembled and its hash is compared
\* with the manifest's
MultiReport ==
  /\ pc_main = "report"
  /\ pc_main' = "done" /\ multi_result' = "assembled"
  /\ multi_verdict' = Verdict(m_info, out_multi.data)
  /\ UNCHANGED <<inputVars, single_verdict, fsVars, splitVars, singleVars, m_info, part_infos,
                 readerVars, writerVars, histVars, out_multi, write_queue>>

\* ----------------------------------------------- read_part_worker_streaming
\* the tuples put on the queue; None is written -1, <<>> and ""
Message(n, pos, d, e) == [part_num |-> n, position |-> pos, data |-> d, error |-> e]
DataChunk(n, pos, d) == Message(n, pos, d, "")
PartCompleted(n) == Message(n, -1, <<>>, "COMPLETED")
PartFailed(n) == Message(n, -1, <<>>, "ERROR")

\* ThreadPoolExecutor: at most max_workers tasks run, taken in submit order
\* an executor that gives an explicit max_workers one thread only
PoolSize_Single ==
  IF max_workers = NoLimit THEN DefaultPoolSize ELSE Min(max_workers, 1)

PoolSize == IF max_workers = NoLimit THEN DefaultPoolSize ELSE max_workers

\* the tasks that hold a pool thread: reading, or blocked for ever
Running == {i \in PartIds : r_pc[i] \in {"read", "hung"}}
CanStart(i) ==
  /\ r_pc[i] = "queued"
  /\ Cardinality(Running) < PoolSize
  /\ \A j \in 1..(i - 1) : r_pc[j] # "queued"

\* lines 81-85: a pool thread takes the task and opens the part file
ReaderStart(i) ==
  /\ CanStart(i)
  /\ r_pc' = [r_pc EXCEPT ![i] = "read"]
  /\ bytes_read' = [bytes_read EXCEPT ![i] = 0]
  /\ UNCHANGED <<inputVars, reportVars, fsVars, splitVars, singleVars, mainVars, sent,
                 writerVars, histVars, out_multi, write_queue>>

\* line 87
ReadLen(buf, part_size, done) == Min(buf, part_size - done)

\* line 92 without the bytes already read
ChunkPosition_PartStart(position, done) == position

\* line 92
ChunkPosition(position, done) == position + done

\* lines 86-94: one pass of the read loop
ReaderRead(i) ==
  /\ r_pc[i] = "read"
  /\ bytes_read[i] < part_infos[i].part_size
  /\ LET info == part_infos[i]
         chunk == ReadAt(parts_dir[info.part_filename], bytes_read[i],
                         ReadLen(buffer_size, info.part_size, bytes_read[i]))
     IN IF chunk = <<>>
          THEN /\ write_queue' = Append(write_queue, PartCompleted(i))
               /\ sent' = [sent EXCEPT ![i] = Append(@, "COMPLETED")]
               /\ r_pc' = [r_pc EXCEPT ![i] = "done"]
               /\ UNCHANGED bytes_read
          ELSE /\ write_queue' = Append(write_queue,
                     DataChunk(i, ChunkPosition(info.position, bytes_read[i]), chunk))
               /\ sent' = [sent EXCEPT ![i] = Append(@, "DATA")]
               /\ bytes_read' = [bytes_read EXCEPT ![i] = @ + Len(chunk)]
               /\ UNCHANGED r_pc
  /\ UNCHANGED <<inputVars, reportVars, fsVars, splitVars, singleVars, mainVars,
                 writerVars, histVars, out_multi>>

\* lines 86, 96-98: the loop ends, the part is reported read
ReaderComplete(i) ==
  /\ r_pc[i] = "read"
  /\ ~(bytes_read[i] < part_infos[i].part_size)
  /\ write_queue' = Append(write_queue, PartCompleted(i))
  /\ sent' = [sent EXCEPT ![i] = Append(@, "COMPLETED")]
  /\ r_pc' = [r_pc EXCEPT ![i] = "done"]
  /\ UNCHANGED <<inputVars, reportVars, fsVars, splitVars, singleVars, mainVars,
                 bytes_read, writerVars, histVars, out_multi>>

\* an except clause that also runs after "COMPLETED" was put
ReaderFail_AfterCompleted(i) ==
  /\ r_pc[i] = "read"
  /\ write_queue' = write_queue \o <<PartCompleted(i), PartFailed(i)>>
  /\ sent' = [sent EXCEPT ![i] = @ \o <<"COMPLETED", "ERROR">>]
  /\ r_pc' = [r_pc EXCEPT ![i] = "done"]
  /\ UNCHANGED <<inputVars, reportVars, fsVars, splitVars, singleVars, mainVars,
                 bytes_read, writerVars, histVars, out_multi>>

\* lines 99-100: open() or read() raises
ReaderFail(i) ==
  /\ \/ CanStart(i)
     \/ r_pc[i] = "read" /\ bytes_read[i] < part_infos[i].part_size
  /\ write_queue' = Append(write_queue, PartFailed(i))
  /\ sent' = [sent EXCEPT ![i] = Append(@, "ERROR")]
  /\ r_pc' = [r_pc EXCEPT ![i] = "done"]
  /\ UNCHANGED <<inputVars, reportVars, fsVars, splitVars, singleVars, mainVars,
                 bytes_read, writerVars, histVars, out_multi>>

\* ---------------------------------------------- write_part_worker_streaming
total_parts == m_info.parts_count

\* lines 112-120: what a message adds to completed_parts
Counted(msg) == IF msg.error = "COMPLETED" THEN 1 ELSE 0

\* line 124 without the seek of line 123
WriteChunk_NoSeek(data, msg) == WriteAt(data, 0, msg.data)

\* lines 123-124
WriteChunk(data, msg) == WriteAt(data, msg.position, msg.data)

\* the loop with a break, instead of a continue, after an error message
WriterGet_StopOnError ==
  /\ w_pc = "loop"
  /\ completed_parts < total_parts
  /\ write_queue # <<>>
  /\ LET msg == Head(write_queue)
     IN /\ write_queue' = Tail(write_queue)
        /\ completed_parts' = completed_parts + Counted(msg)
        /\ w_pc' = IF /\ completed_parts + Counted(msg) < total_parts
                      /\ msg.error \in {"", "COMPLETED"}
                     THEN "loop" ELSE "exit"
        /\ IF msg.error = "COMPLETED"
             THEN /\ w_seen' = [w_seen EXCEPT ![msg.part_num] = "COMPLETED"]
                  /\ UNCHANGED <<out_multi, w_count>>
             ELSE IF msg.error # ""
               THEN /\ w_seen' = [w_seen EXCEPT ![msg.part_num] = "ERROR"]
                    /\ UNCHANGED <<out_multi, w_count>>
               ELSE /\ out_multi' = File(WriteChunk(out_multi.data, msg))
                    /\ w_count' = [o \in DOMAIN w_count |->
                         IF o >= msg.position /\ o < msg.position + Len(msg.data)
                           THEN w_count[o] + 1 ELSE w_count[o]]
                    /\ UNCHANGED w_seen
  /\ UNCHANGED <<inputVars, reportVars, fsVars, splitVars, singleVars, mainVars,
                 readerVars, timed_out, histVars>>

\* lines 108-124: one pass of the loop with a message from the queue
WriterGet ==
  /\ w_pc = "loop"
  /\ completed_parts < total_parts
  /\ write_queue # <<>>
  /\ LET msg == Head(write_queue)
     IN /\ write_queue' = Tail(write_queue)
        /\ completed_parts' = completed_parts + Counted(msg)
        /\ w_pc' = IF completed_parts + Counted(msg) < total_parts
                     THEN "loop" ELSE "exit"
        /\ IF msg.error = "COMPLETED"
             THEN /\ w_seen' = [w_seen EXCEPT ![msg.part_num] = "COMPLETED"]
                  /\ UNCHANGED <<out_multi, w_count>>
             ELSE IF msg.error # ""
               THEN /\ w_seen' = [w_seen EXCEPT ![msg.part_num] = "ERROR"]
                    /\ UNCHANGED <<out_multi, w_count>>
               ELSE /\ out_multi' = File(WriteChunk(out_multi.data, msg))
                    /\ w_count' = [o \in DOMAIN w_count |->
                         IF o >= msg.position /\ o < msg.position + Len(msg.data)
                           THEN w_count[o] + 1 ELSE w_count[o]]
                    /\ UNCHANGED w_seen
  /\ UNCHANGED <<inputVars, reportVars, fsVars, splitVars, singleVars, mainVars,
                 readerVars, timed_out, histVars>>

\* the except clause with a continue instead of the break
WriterTimeout_Continue ==
  /\ w_pc = "loop"
  /\ completed_parts < total_parts
  /\ write_queue = <<>>
  /\ w_pc' = "loop"
  /\ timed_out' = TRUE
  /\ UNCHANGED <<inputVars, reportVars, fsVars, splitVars, singleVars, mainVars,
                 readerVars, completed_parts, w_seen, w_count, histVars,
                 out_multi, write_queue>>

\* lines 110, 126-130: get(timeout=30) raises queue.Empty
WriterTimeout ==
  /\ w_pc = "loop"
  /\ completed_parts < total_parts
  /\ write_queue = <<>>
  /\ w_pc' = "exit"
  /\ timed_out' = TRUE
  /\ UNCHANGED <<inputVars, reportVars, fsVars, splitVars, singleVars, mainVars,
                 readerVars, completed_parts, w_seen, w_count, histVars,
                 out_multi, write_queue>>

\* ---------------------------------------------------------- specification
Next ==
  \/ SplitStart \/ SplitOpenPart \/ SplitWriteChunk \/ SplitClosePart
  \/ SplitWriteInfo
  \/ SingleStart \/ SinglePrealloc \/ SingleNextPart \/ SingleCopy
  \/ SingleReport
  \/ MultiStart \/ MultiPrealloc \/ MultiPrepare \/ MultiStartWriter
  \/ MultiSubmit \/ MultiReadersDone \/ MultiJoinWriter \/ MultiJoinTimeout
  \/ MultiReport
  \/ \E i \in PartIds : ReaderStart(i)
  \/ \E i \in PartIds : ReaderRead(i)
  \/ \E i \in PartIds : ReaderComplete(i)
  \/ \E i \in PartIds : ReaderFail(i)
  \/ WriterGet \/ WriterTimeout

Spec == Init /\ [][Next]_vars

\* ------------------------------------------------------------ environment
\* Between split_file and the joins the directory can lose a part file or
\* the .info file a line: one such change to what split_file left.
AsSplit ==
  /\ split_result = "split"
  /\ DOMAIN parts_dir =
       {PartFileName(file_name, i) : i \in 1..(part_num - 1)}
  /\ info_file.data = WriteInfo(file_name, part_num - 1, file_size,
                                chunk_size, FileHash)

DeletePart(i) ==
  /\ pc_split = "done" /\ pc_single = "ready" /\ AsSplit
  /\ PartFileName(file_name, i) \in DOMAIN parts_dir
  /\ parts_dir' = [p \in DOMAIN parts_dir \ {PartFileName(file_name, i)}
                     |-> parts_dir[p]]
  /\ UNCHANGED <<inputVars, reportVars, dir_exists, info_file, splitVars,
                 singleVars, mainVars, readerVars, writerVars, histVars,
                 out_multi, write_queue>>

DropInfoLine(n) ==
  /\ pc_split = "done" /\ pc_single = "ready" /\ AsSplit
  /\ n \in 1..Len(info_file.data)
  /\ info_file' = File(SubSeq(info_file.data, 1, n - 1)
                        \o SubSeq(info_file.data, n + 1, Len(info_file.data)))
  /\ UNCHANGED <<inputVars, reportVars, dir_exists, parts_dir, splitVars,
                 singleVars, mainVars, readerVars, writerVars, histVars,
                 out_multi, write_queue>>

MaxInfoLines == 5

EnvNext ==
  \/ Next
  \/ \E i \in PartIds : DeletePart(i)
  \/ \E n \in 1..MaxInfoLines : DropInfoLine(n)

EnvSpec == Init /\ [][EnvNext]_vars

\* The fairness the threads' scheduling gives: every thread that can take
\* a step eventually takes one, and a pending get(timeout=30) expires.  No
\* fairness for I/O errors (ReaderFail) nor for join's timeout.
SplitStep ==
  \/ SplitStart \/ SplitOpenPart \/ SplitWriteChunk \/ SplitClosePart
  \/ SplitWriteInfo
SingleStep ==
  \/ SingleStart \/ SinglePrealloc \/ SingleNextPart \/ SingleCopy
  \/ SingleReport
MainStep ==
  \/ MultiStart \/ MultiPrealloc \/ MultiPrepare \/ MultiStartWriter
  \/ MultiSubmit \/ MultiReadersDone \/ MultiJoinWriter \/ MultiReport
ReaderStep(i) == ReaderStart(i) \/ ReaderRead(i) \/ ReaderComplete(i)

\* The threads' steps read neither the name's white space nor the hash:
\* the specifications with fairness start from a name strip() leaves alone
\* and from verify_hash = False.
PlainInit == Init /\ file_name = Strip(file_name) /\ ~verify_hash

FairSpec ==
  /\ PlainInit /\ [][Next]_vars
  /\ WF_vars(SplitStep) /\ WF_vars(SingleStep) /\ WF_vars(MainStep)
  /\ \A i \in PartIds : WF_vars(ReaderStep(i))
  /\ WF_vars(WriterGet) /\ WF_vars(WriterTimeout)

\* ================================================================== claims
SplitDone == split_result = "split"
SourceSize == Len(src.data)
SplitPart(i) == parts_dir[PartFileName(file_name, i)]
ExpectedParts == (SourceSize + chunk_size - 1) \div chunk_size
NoReaderFailed == \A i \in PartIds : \A n \in 1..Len(sent[i]) : sent[i][n] # "ERROR"
DataIndexes(q) == {n \in 1..Len(q) : q[n].error = ""}

\* C8: after split_file of a non-empty source of S bytes with chunk size C
\* the directory holds exactly the parts 1..N, N = ceil(S/C); parts 1..N-1
\* have C bytes, the last has S - (N-1)*C > 0 bytes; the manifest records
\* parts_count = N, original_size = S, chunk_size = C; C*(N-1) < S <= C*N.
C8_PartCount ==
  SplitDone =>
    LET N == ExpectedParts
        m == ParseInfo(info_file.data)
    IN /\ DOMAIN parts_dir = {PartFileName(file_name, i) : i \in 1..N}
       /\ \A i \in 1..(N - 1) : Len(SplitPart(i)) = chunk_size
       /\ Len(SplitPart(N)) = SourceSize - (N - 1) * chunk_size
       /\ Len(SplitPart(N)) > 0
       /\ info_file.exists
       /\ m.parts_count = N
       /\ m.original_size = SourceSize
       /\ m.chunk_size = chunk_size
       /\ chunk_size * (N - 1) < SourceSize
       /\ SourceSize <= chunk_size * N

C8_Witness ==
  /\ SplitDone
  /\ ExpectedParts >= 2
  /\ SourceSize % chunk_size # 0
  /\ buffer_size > 1

\* C7: for a directory made by split_file the ranges
\* [(i-1)*chunk_size, (i-1)*chunk_size + size_i) the concurrent join gives
\* to the parts do not overlap, each ends where the next starts, the first
\* starts at 0 and the last ends at originalSize; no output byte is written
\* by two DataChunks.
C7_Disjoint ==
  (SplitDone /\ part_infos # <<>>) =>
    LET n == Len(part_infos)
        start(i) == part_infos[i].position
        end(i) == part_infos[i].position + part_infos[i].part_size
    IN /\ n = ExpectedParts
       /\ \A i \in 1..n : start(i) = (i - 1) * chunk_size
       /\ \A i \in 1..n : \A j \in 1..n : i < j => end(i) <= start(j)
       /\ \A i \in 1..(n - 1) : end(i) = start(i + 1)
       /\ start(1) = 0
       /\ end(n) = SourceSize
       /\ \A o \in DOMAIN w_count : w_count[o] <= 1

C7_Witness ==
  /\ SplitDone
  /\ Len(part_infos) >= 2
  /\ buffer_size < chunk_size
  /\ \A o \in 0..(SourceSize - 1) : w_count[o] = 1

\* C9: in both joins the output file has exactly originalSize bytes from
\* the moment it exists, it exists before the first copy, before the Writer
\* and before any Reader starts, every DataChunk lies inside
\* [0, originalSize), and the length never changes during the writes.
C9_Preallocated ==
  SplitDone =>
    /\ out_single.exists =>
         /\ s_info.original_size = SourceSize
         /\ Len(out_single.data) = s_info.original_size
    /\ out_multi.exists =>
         /\ m_info.original_size = SourceSize
         /\ Len(out_multi.data) = m_info.original_size
    /\ pc_single = "copy" =>
         /\ out_single.exists
         /\ s_pos + (Len(SplitPart(s_i)) - s_read) <= s_info.original_size
    /\ (w_pc # "none" \/ \E i \in PartIds : r_pc[i] # "none") => out_multi.exists
    /\ \A n \in DataIndexes(write_queue) :
         /\ write_queue[n].position >= 0
         /\ write_queue[n].position + Len(write_queue[n].data)
              <= m_info.original_size

C9_Witness ==
  /\ SplitDone
  /\ SourceSize >= 2
  /\ single_result = "assembled"
  /\ out_single.data[SourceSize] # 0
  /\ w_pc = "exit"
  /\ out_multi.data[SourceSize] # 0

\* C2: every Reader puts at most one terminal message, nothing after it,
\* exactly one once it has returned, and "COMPLETED" only after it has read
\* the whole part.
IsTerminal(k) == k \in {"COMPLETED", "ERROR"}
Terminals(i) == {n \in 1..Len(sent[i]) : IsTerminal(sent[i][n])}

AllTerminalsSeen == \A i \in 1..total_parts : w_seen[i] # "none"

C3_CountBasedTermination ==
  w_pc # "none" =>
    /\ (w_pc = "exit" /\ ~timed_out) => AllTerminalsSeen
    /\ AllTerminalsSeen => (w_pc = "exit" /\ ~timed_out)

\* C4: the channel holds a bounded number of DataChunks whatever the file
\* size and the number of chunks of a part: here, at most one DataChunk of
\* each Reader waits for the Writer.
DataChunksOf(i) == {n \in DataIndexes(write_queue) : write_queue[n].part_num = i}

C4_BoundedChannel == \A i \in PartIds : Cardinality(DataChunksOf(i)) <= 1

\* C5: a PartFailed message does not stop the Writer: it never leaves its
\* loop, other than through the receive timeout, while a Reader is running
\* or a DataChunk is in the channel, and once it has taken the COMPLETED of
\* a part, after the failure of another, that part's range of the output
\* holds that part's bytes.
OutRange(data, pos, len) == SubSeq(data, pos + 1, pos + len)
SomePartFailed == \E j \in PartIds : w_seen[j] = "ERROR"
PartWritten(i) ==
  OutRange(out_multi.data, part_infos[i].position, part_infos[i].part_size)
    = parts_dir[part_infos[i].part_filename]

C6_WriterTerminates ==
  /\ (w_pc = "loop") ~> (w_pc = "exit")
  /\ [](timed_out => (w_pc = "exit" /\ completed_parts < total_parts))

C6_Witness ==
  /\ timed_out
  /\ w_pc = "exit"
  /\ completed_parts >= 1
  /\ completed_parts < total_parts

\* C1: after split_file of a non-empty file, a join that has returned, with
\* every part read without error and no receive timeout of the Writer,
\* leaves an output file equal to the source, for both joins.
C1_RoundTrip ==
  SplitDone =>
    /\ pc_single = "done" => out_single = File(src.data)
    /\ (pc_main = "done" /\ NoReaderFailed /\ ~timed_out) =>
         out_multi = File(src.data)

\* C10: when both joins of one directory made by split_file have returned,
\* with every part read without error and no receive timeout of the
\* Writer, the two output files are equal.
C10_StrategyEquivalence ==
  (SplitDone /\ pc_single = "done" /\ pc_main = "done"
     /\ NoReaderFailed /\ ~timed_out) =>
    out_multi = out_single

\* C11: a join that reports the file assembled from a manifest with
\* original_hash has one verdict, "match" exactly when the output content
\* has the stored digest (none without original_hash); the output of a join
\* of split_file's directory made with verify_hash, every part read and no
\* receive timeout, is reported to match; the output file stays in place.
HasDigest(m) == m.original_hash # None /\ m.original_hash # <<>>
VerdictRight(m, out, verdict) ==
  /\ out.exists
  /\ HasDigest(m) => /\ verdict \in {"match", "mismatch"}
                     /\ verdict = "match" <=> HexDigest(out.data) = m.original_hash
  /\ ~HasDigest(m) => verdict = "none"

C11_IntegrityVerdict ==
  /\ single_result = "assembled" =>
       /\ VerdictRight(s_info, out_single, single_verdict)
       /\ (SplitDone /\ verify_hash) => single_verdict = "match"
  /\ multi_result = "assembled" =>
       /\ VerdictRight(m_info, out_multi, multi_verdict)
       /\ (SplitDone /\ verify_hash /\ NoReaderFailed /\ ~timed_out) =>
            multi_verdict = "match"

\* ------------------------------------------------------------ hung Reader
\* open() or read() of a part never returns (lines 84, 87): the task keeps
\* its pool thread and puts no further message.  One Reader at most hangs.
ReaderHang(i) ==
  /\ r_pc[i] = "read"
  /\ \A j \in PartIds : r_pc[j] # "hung"
  /\ r_pc' = [r_pc EXCEPT ![i] = "hung"]
  /\ UNCHANGED <<inputVars, reportVars, fsVars, splitVars, singleVars, mainVars,
                 bytes_read, sent, writerVars, histVars, out_multi, write_queue>>

HangNext == Next \/ \E i \in PartIds : ReaderHang(i)

HangSpec ==
  /\ PlainInit /\ [][HangNext]_vars
  /\ WF_vars(SplitStep) /\ WF_vars(SingleStep) /\ WF_vars(MainStep)
  /\ \A i \in PartIds : WF_vars(ReaderStep(i))
  /\ WF_vars(WriterGet) /\ WF_vars(WriterTimeout)

\* C12: when a part file in 1..parts_count is absent, each join returns
\* "missing part", prints no verdict and leaves an output that differs from
\* the source; the concurrent join starts neither the Writer nor a Reader.
MissingFor(m) ==
  {i \in 1..m.parts_count : ~PathExists(parts_dir, PartPath(m, i))}
SingleMissed ==
  pc_single = "done" /\ JoinCheck(s_info) = "ok" /\ MissingFor(s_info) # {}
MultiMissed ==
  pc_main = "done" /\ JoinCheck(m_info) = "ok" /\ MissingFor(m_info) # {}
NothingStarted == w_pc = "none" /\ \A i \in PartIds : r_pc[i] = "none"

C12_MissingPart ==
  /\ SingleMissed =>
       /\ single_result = "missing_part" /\ single_verdict = "none"
       /\ out_single.data # src.data
  /\ MultiMissed =>
       /\ multi_result = "missing_part" /\ multi_verdict = "none"
       /\ out_multi.data # src.data
       /\ NothingStarted

\* C12 as amended: the output keeps its preallocated length; the single
\* join has copied the parts before the first missing one and left zero
\* bytes from that part's offset on, the concurrent join has left zero bytes
\* everywhere (so the output equals the source only when those source bytes
\* are zero).
FirstMissing(m) == CHOOSE i \in MissingFor(m) : \A j \in MissingFor(m) : i <= j
CopiedBefore(m, out, k) ==
  /\ Len(out.data) = m.original_size
  /\ \A o \in 1..Len(out.data) :
       out.data[o] = IF o <= PartPosition(k, m.chunk_size) /\ o <= Len(src.data)
                       THEN src.data[o] ELSE 0

C12_MissingPartLeavesZeros ==
  /\ SingleMissed =>
       /\ single_result = "missing_part" /\ single_verdict = "none"
       /\ CopiedBefore(s_info, out_single, FirstMissing(s_info))
  /\ MultiMissed =>
       /\ multi_result = "missing_part" /\ multi_verdict = "none"
       /\ CopiedBefore(m_info, out_multi, 1)
       /\ NothingStarted

C12_Witness ==
  /\ file_name = <<"a">>
  /\ SingleMissed /\ MultiMissed
  /\ MissingFor(s_info) = {2}
  /\ out_single.data[1] # 0
  /\ out_single.data # src.data

\* C14: a join of a directory whose .info file lacks original_name,
\* parts_count, original_size or chunk_size returns a manifest format error
\* and has not created its output file.
RequiredKeys == {"original_name", "parts_count", "original_size", "chunk_size"}
LacksKey == info_file.exists /\ \E k \in RequiredKeys : ~HasKey(info_file.data, k)

C14_RequiredKeys ==
  LacksKey =>
    /\ pc_single # "ready" =>
         pc_single = "done" /\ single_result = "bad_info" /\ ~out_single.exists
    /\ pc_main # "ready" =>
         pc_main = "done" /\ multi_result = "bad_info" /\ ~out_multi.exists

\* C13: split_file of a missing or empty source reports the error and
\* ends at once, having created no directory, no part file and no .info file.
C13_NoOutputOnInputError ==
  (~src.exists \/ SourceSize = 0) =>
    /\ ~dir_exists /\ parts_dir = EmptyDir /\ ~info_file.exists
    /\ open_parts = {}
    /\ pc_split \in {"ready", "done"}
    /\ pc_split = "done" =>
         split_result = (IF src.exists THEN "empty" ELSE "not_found")

C13_Witness == split_result = "empty" /\ pc_single = "done" /\ pc_main = "done"

\* C15: split_file never has two part files open; the .info file exists
\* only once every part 1..N is written in full and closed, so a split
\* stopped at any earlier point has left no .info file.
PartsComplete ==
  /\ DOMAIN parts_dir = {PartFileName(file_name, i) : i \in 1..ExpectedParts}
  /\ \A i \in 1..ExpectedParts :
       SplitPart(i) = OutRange(src.data, PartPosition(i, chunk_size),
                               Min(chunk_size, SourceSize - PartPosition(i, chunk_size)))

C15_SplitOrdering ==
  /\ Cardinality(open_parts) <= 1
  /\ info_file.exists => open_parts = {} /\ PartsComplete /\ pc_split = "done"
  /\ pc_split # "done" => ~info_file.exists

C15_Witness ==
  /\ open_parts = {2} /\ pc_split = "inner"
  /\ SplitPart(1) = OutRange(src.data, 0, chunk_size)
  /\ ~info_file.exists

\* C16: the concurrent join is never past its wait on the Writer (about to
\* report, or returned) while the Writer is still in its loop with a
\* DataChunk left in the channel.
PastWriterWait == pc_main \in {"report", "done"} /\ multi_result \in {"none", "assembled"}
                    /\ w_pc # "none"
C16_VerifyAfterWriter ==
  PastWriterWait => ~(w_pc = "loop" /\ DataIndexes(write_queue) # {})

\* C17: bytes_read of a Reader is 0 before its first message and moves only
\* when it puts a DataChunk; a DataChunk of part i carries the offset
\* (i-1)*chunk_size + bytes_read, holds between 1 and buffer_size bytes, the
\* part's bytes at bytes_read, and advances bytes_read by its length (so the
\* offsets of a part rise without gap or overlap); "COMPLETED" is put with
\* bytes_read equal to the part's size on disk.
Put(i) == sent'[i] # sent[i]
LastPut == write_queue'[Len(write_queue')]
C17_ChunkStep(i) ==
  IF Put(i)
    THEN /\ write_queue' = Append(write_queue, LastPut)
         /\ LastPut.part_num = i
         /\ LastPut.error = "" =>
              /\ LastPut.position = (i - 1) * m_info.chunk_size + bytes_read[i]
              /\ Len(LastPut.data) \in 1..buffer_size
              /\ LastPut.data = ReadAt(parts_dir[PartPath(m_info, i)],
                                       bytes_read[i], Len(LastPut.data))
              /\ bytes_read'[i] = bytes_read[i] + Len(LastPut.data)
         /\ LastPut.error = "COMPLETED" =>
              /\ bytes_read[i] = GetSize(parts_dir, PartPath(m_info, i))
              /\ bytes_read'[i] = bytes_read[i]
    ELSE r_pc[i] # "queued" => bytes_read'[i] = bytes_read[i]

C17_PositionedChunks ==
  /\ [](\A i \in PartIds : sent[i] = <<>> => bytes_read[i] = 0)
  /\ [][\A i \in PartIds : C17_ChunkStep(i)]_vars

C17_Witness ==
  /\ sent[1] = <<"DATA", "DATA", "COMPLETED">>
  /\ sent[2] = <<"DATA", "COMPLETED">>
  /\ buffer_size = 1

\* C18: once the Writer has taken "COMPLETED" of part i no DataChunk of
\* part i is left in the channel and the output holds the part's content at
\* the part's offset; so a Writer that left its loop having counted every
\* part has filled every offset of the output with its part's byte.
PartOf(o, m) == (o \div m.chunk_size) + 1
C18_CompletionImpliesWritten ==
  /\ \A i \in PartIds :
       w_seen[i] = "COMPLETED" => DataChunksOf(i) = {} /\ PartWritten(i)
  /\ (w_pc = "exit" /\ completed_parts = total_parts) =>
       /\ Len(out_multi.data) = m_info.original_size
       /\ \A o \in 0..(m_info.original_size - 1) :
            /\ PartOf(o, m_info) \in 1..total_parts
            /\ out_multi.data[o + 1] =
                 parts_dir[PartPath(m_info, PartOf(o, m_info))]
                          [o - PartPosition(PartOf(o, m_info), m_info.chunk_size) + 1]

C18_Witness ==
  /\ w_pc = "exit" /\ completed_parts = total_parts /\ total_parts = 2
  /\ buffer_size < chunk_size
  /\ out_multi.data = src.data /\ SourceSize = MaxFileSize

\* C19: with one Reader hung, every other Reader whose task was submitted
\* gets a pool thread and returns (having put its terminal message), for
\* every max_workers.
Returned(j) == r_pc[j] = "done" /\ Terminals(j) # {}
C19_ReaderIndependence ==
  \A j \in PartIds : (r_pc[j] = "queued") ~> (Returned(j) \/ r_pc[j] = "hung")

\* C19 as amended: the same when the pool has more threads than Readers
\* hang: with one hung Reader, for max_workers unset or at least 2.
C19_IndependenceWithSpareWorker ==
  \A j \in PartIds :
    (r_pc[j] = "queued" /\ max_workers # 1) ~> (Returned(j) \/ r_pc[j] = "hung")

C19_Witness ==
  /\ max_workers = 2
  /\ r_pc[1] = "hung" /\ sent[1] = <<"DATA">>
  /\ Returned(2) /\ sent[2] = <<"DATA", "COMPLETED">>
  /\ w_seen[2] = "COMPLETED"

\* C20: a concurrent join that has started returns in every execution, a
\* Reader that never puts its terminal message included.
C20_JoinReturns == (pc_main # "ready") ~> (pc_main = "done")

====
